---- MODULE Spec2Model ----
(***************************************************************************)
(* The "AI Visibility Audit" form component.  The repository holds three   *)
(* variants of the App component:                                          *)
(*   "basic"      src/src/App.js lines 4-59    two fields, 1500 ms timer    *)
(*   "validating" src/src/App.js lines 66-168  five fields, presence check, *)
(*                                             1500 ms timer                *)
(*   "webhook"    src/unnamed/part_000         five fields, awaited POST    *)
(* The variant is fixed at mount.  Every event handler runs to completion  *)
(* on the single UI thread, so each handler (and each continuation after   *)
(* the one suspension point of runAudit) is one action.                    *)
(***************************************************************************)
EXTENDS Integers, Sequences, FiniteSets, TLC

\* ---- bounds ----
MaxSubmits == 3

\* values a text input can deliver to its onChange handler
Values == {"", "a"}

\* HTTP statuses with which the webhook may answer (fetch resolves on all)
Statuses == {200, 500}

Variants == {"basic", "validating", "webhook"}

VARIABLES
    variant,      \* which App component is mounted
    contactName,  \* useState("")
    phone,        \* useState("")
    email,        \* useState("")
    business,     \* useState("")
    location,     \* useState("")
    results,      \* useState(null): <<>> is null, <<r>> is the object r
    loading,      \* useState(false)
    alertOpen,    \* the blocking alert() dialog is on screen
    timers,       \* number of setTimeout callbacks not yet fired
    inflight,     \* fetch calls not yet settled: [body, env]
    posts,        \* number of POSTs handed to the network so far
    settled,      \* how the network settled each finished POST, in order
    console,      \* labels written by console.log / console.error, in order
    submits,      \* number of runAudit calls that got past validation
    completed,    \* number of submit cycles that ran their completion
    lastSet,      \* history: per field, the value most recently typed
    event         \* history: the kind of the event handled last

fields == <<contactName, phone, email, business, location>>

vars == <<variant, contactName, phone, email, business, location, results,
          loading, alertOpen, timers, inflight, posts, settled, console,
          submits, completed, lastSet, event>>

FieldNames == {"contactName", "phone", "email", "business", "location"}

null == <<>>

\* the three textual copies of the canned response
simulatedResponse_basic ==
    [directories |-> <<"Google Business", "Yelp", "Bing Places">>,
     missing |-> <<"Yelp">>,
     aiMention |-> FALSE,
     recommendations |->
        <<"Create a Yelp profile with full business details.",
          "Add structured FAQ to your website (schema.org markup).",
          "Get mentioned on local blogs or Reddit threads.">>]

simulatedResponse_validating ==
    [directories |-> <<"Google Business", "Yelp", "Bing Places">>,
     missing |-> <<"Yelp">>,
     aiMention |-> FALSE,
     recommendations |->
        <<"Create a Yelp profile with full business details.",
          "Add structured FAQ to your website (schema.org markup).",
          "Get mentioned on local blogs or Reddit threads.">>]

simulatedResponse_webhook ==
    [directories |-> <<"Google Business", "Yelp", "Bing Places">>,
     missing |-> <<"Yelp">>,
     aiMention |-> FALSE,
     recommendations |->
        <<"Create a Yelp profile with full business details.",
          "Add structured FAQ to your website (schema.org markup).",
          "Get mentioned on local blogs or Reddit threads.">>]

Init ==
    /\ variant \in Variants
    /\ contactName = ""
    /\ phone = ""
    /\ email = ""
    /\ business = ""
    /\ location = ""
    /\ results = null
    /\ loading = FALSE
    /\ alertOpen = FALSE
    /\ timers = 0
    /\ inflight = <<>>
    /\ posts = 0
    /\ settled = <<>>
    /\ console = <<>>
    /\ submits = 0
    /\ completed = 0
    /\ lastSet = [f \in FieldNames |-> ""]
    /\ event = "mount"

\* ---- field updates (onChange handlers) ----
\* The two-field variant renders only the business and location inputs.
setContactName(v) ==
    /\ variant # "basic"
    /\ ~alertOpen
    /\ contactName' = v
    /\ lastSet' = [lastSet EXCEPT !["contactName"] = v]
    /\ event' = "change"
    /\ UNCHANGED <<variant, phone, email, business, location, results,
                   loading, alertOpen, timers, inflight, posts, settled,
                   console, submits, completed>>

\* a setter wired to the wrong state variable
setPhone_wrongField(v) ==
    /\ variant # "basic"
    /\ ~alertOpen
    /\ email' = v
    /\ lastSet' = [lastSet EXCEPT !["phone"] = v]
    /\ event' = "change"
    /\ UNCHANGED <<variant, contactName, phone, business, location, results,
                   loading, alertOpen, timers, inflight, posts, settled,
                   console, submits, completed>>

setPhone(v) ==
    /\ variant # "basic"
    /\ ~alertOpen
    /\ phone' = v
    /\ lastSet' = [lastSet EXCEPT !["phone"] = v]
    /\ event' = "change"
    /\ UNCHANGED <<variant, contactName, email, business, location, results,
                   loading, alertOpen, timers, inflight, posts, settled,
                   console, submits, completed>>

setEmail(v) ==
    /\ variant # "basic"
    /\ ~alertOpen
    /\ email' = v
    /\ lastSet' = [lastSet EXCEPT !["email"] = v]
    /\ event' = "change"
    /\ UNCHANGED <<variant, contactName, phone, business, location, results,
                   loading, alertOpen, timers, inflight, posts, settled,
                   console, submits, completed>>

setBusiness(v) ==
    /\ ~alertOpen
    /\ business' = v
    /\ lastSet' = [lastSet EXCEPT !["business"] = v]
    /\ event' = "change"
    /\ UNCHANGED <<variant, contactName, phone, email, location, results,
                   loading, alertOpen, timers, inflight, posts, settled,
                   console, submits, completed>>

setLocation(v) ==
    /\ ~alertOpen
    /\ location' = v
    /\ lastSet' = [lastSet EXCEPT !["location"] = v]
    /\ event' = "change"
    /\ UNCHANGED <<variant, contactName, phone, email, business, results,
                   loading, alertOpen, timers, inflight, posts, settled,
                   console, submits, completed>>

\* ---- the submit control ----
\* a control that never disables
ButtonDisabled_never == FALSE

\* a control that also disables once results are on screen
ButtonDisabled_afterResults == loading \/ results # null

\* <button onClick={runAudit} disabled={loading}>
ButtonDisabled == loading

\* a presence check that forgets the last field
MissingField_noLocation ==
    contactName = "" \/ phone = "" \/ email = "" \/ business = ""

\* !contactName || !phone || !email || !business || !location
\* (the state values are strings; only "" is falsy)
MissingField ==
    contactName = "" \/ phone = "" \/ email = "" \/ business = ""
        \/ location = ""

\* the request body with the name key fed from the wrong variable
JSONBody_wrongName ==
    << <<"name", business>>, <<"phone", phone>>, <<"email", email>>,
       <<"business", business>>, <<"location", location>> >>

\* JSON.stringify({name: contactName, phone, email, business, location}):
\* the members of the JSON object, in insertion order, as key/value pairs
JSONBody ==
    << <<"name", contactName>>, <<"phone", phone>>, <<"email", email>>,
       <<"business", business>>, <<"location", location>> >>

\* the state values the async runAudit closes over (read again by the
\* console.log after the await)
Closure ==
    [contactName |-> contactName, phone |-> phone, email |-> email,
     business |-> business, location |-> location]

\* runAudit of the two-field variant
runAudit_basic ==
    /\ variant = "basic"
    /\ submits < MaxSubmits
    /\ loading' = TRUE
    /\ timers' = timers + 1
    /\ submits' = submits + 1
    /\ UNCHANGED <<alertOpen, console, inflight, posts>>

\* runAudit of the validating variant
runAudit_validating ==
    /\ variant = "validating"
    /\ IF MissingField
       THEN /\ alertOpen' = TRUE
            /\ UNCHANGED <<loading, console, timers, submits>>
       ELSE /\ submits < MaxSubmits
            /\ loading' = TRUE
            /\ console' = Append(console, "Audit submitted:")
            /\ timers' = timers + 1
            /\ submits' = submits + 1
            /\ UNCHANGED alertOpen
    /\ UNCHANGED <<inflight, posts>>

\* runAudit of the webhook variant, up to its await
runAudit_webhook ==
    /\ variant = "webhook"
    /\ submits < MaxSubmits
    /\ loading' = TRUE
    /\ inflight' = Append(inflight, [body |-> JSONBody, env |-> Closure])
    /\ posts' = posts + 1
    /\ submits' = submits + 1
    /\ UNCHANGED <<alertOpen, console, timers>>

\* a click on the submit control
ClickRunAudit ==
    /\ ~alertOpen
    /\ ~ButtonDisabled
    /\ \/ runAudit_basic
       \/ runAudit_validating
       \/ runAudit_webhook
    /\ event' = "click"
    /\ UNCHANGED <<variant, contactName, phone, email, business, location,
                   results, settled, completed, lastSet>>

\* alert() blocks the UI thread until the user dismisses the dialog
DismissAlert ==
    /\ alertOpen
    /\ alertOpen' = FALSE
    /\ event' = "dismiss"
    /\ UNCHANGED <<variant, contactName, phone, email, business, location,
                   results, loading, timers, inflight, posts, settled,
                   console, submits, completed, lastSet>>

\* ---- completions ----
\* the setTimeout callback of the two-field variant
TimerFire_basic ==
    /\ variant = "basic"
    /\ ~alertOpen
    /\ timers > 0
    /\ results' = <<simulatedResponse_basic>>
    /\ loading' = FALSE
    /\ timers' = timers - 1
    /\ completed' = completed + 1
    /\ event' = "timeout"
    /\ UNCHANGED <<variant, contactName, phone, email, business, location,
                   alertOpen, inflight, posts, settled, console, submits,
                   lastSet>>

\* a callback that toggles the panel instead of setting it
TimerFire_toggle ==
    /\ variant = "validating"
    /\ ~alertOpen
    /\ timers > 0
    /\ results' = IF results = null THEN <<simulatedResponse_validating>>
                                    ELSE null
    /\ loading' = FALSE
    /\ timers' = timers - 1
    /\ completed' = completed + 1
    /\ event' = "timeout"
    /\ UNCHANGED <<variant, contactName, phone, email, business, location,
                   alertOpen, inflight, posts, settled, console, submits,
                   lastSet>>

\* the setTimeout callback of the validating variant
TimerFire_validating ==
    /\ variant = "validating"
    /\ ~alertOpen
    /\ timers > 0
    /\ results' = <<simulatedResponse_validating>>
    /\ loading' = FALSE
    /\ timers' = timers - 1
    /\ completed' = completed + 1
    /\ event' = "timeout"
    /\ UNCHANGED <<variant, contactName, phone, email, business, location,
                   alertOpen, inflight, posts, settled, console, submits,
                   lastSet>>

\* how a fetch can settle: it resolves with a Response whatever the HTTP
\* status, and rejects on a network failure
Outcomes ==
    [type : {"response"}, status : Statuses]
        \cup {[type |-> "error", status |-> 0]}

RemoveAt(s, i) == SubSeq(s, 1, i - 1) \o SubSeq(s, i + 1, Len(s))

\* a continuation that shows results only for a 2xx response
resultsAfterSettle_checkOk(outcome) ==
    IF outcome.type = "response" /\ outcome.status < 300
    THEN <<simulatedResponse_webhook>>
    ELSE results

\* try { await fetch(..); ..; setResults(simulatedResponse) } catch { .. }
\* a rejected await skips the rest of the try block
resultsAfterSettle(outcome) ==
    IF outcome.type = "response"
    THEN <<simulatedResponse_webhook>>
    ELSE results

\* console.log after the await, console.error in the catch
consoleAfterSettle(outcome) ==
    IF outcome.type = "response"
    THEN Append(console, "Audit submitted:")
    ELSE Append(console, "Error submitting to webhook:")

\* setLoading(false) moved from the finally block into the try block
loadingAfterSettle_inTry(outcome) == outcome.type = "error"

\* finally { setLoading(false) }
loadingAfterSettle(outcome) == FALSE

\* the continuation of runAudit once the awaited fetch settles
FetchSettle ==
    /\ variant = "webhook"
    /\ ~alertOpen
    /\ \E i \in 1..Len(inflight), outcome \in Outcomes :
        /\ inflight' = RemoveAt(inflight, i)
        /\ settled' = Append(settled, outcome)
        /\ results' = resultsAfterSettle(outcome)
        /\ console' = consoleAfterSettle(outcome)
        /\ loading' = loadingAfterSettle(outcome)
    /\ completed' = completed + 1
    /\ event' = "settle"
    /\ UNCHANGED <<variant, contactName, phone, email, business, location,
                   alertOpen, timers, posts, submits, lastSet>>

Next ==
    \/ \E v \in Values : setContactName(v)
    \/ \E v \in Values : setPhone(v)
    \/ \E v \in Values : setEmail(v)
    \/ \E v \in Values : setBusiness(v)
    \/ \E v \in Values : setLocation(v)
    \/ ClickRunAudit
    \/ DismissAlert
    \/ TimerFire_basic
    \/ TimerFire_validating
    \/ FetchSettle

Spec == Init /\ [][Next]_vars

\* the timer eventually fires and the network eventually settles the request
FairSpec ==
    /\ Spec
    /\ WF_vars(TimerFire_basic)
    /\ WF_vars(TimerFire_validating)
    /\ WF_vars(FetchSettle)

\* ---- properties ----
\* the AuditResult constant as the specification states it
FixedAuditResult ==
    [directories |-> <<"Google Business", "Yelp", "Bing Places">>,
     missing |-> <<"Yelp">>,
     aiMention |-> FALSE,
     recommendations |->
        <<"Create a Yelp profile with full business details.",
          "Add structured FAQ to your website (schema.org markup).",
          "Get mentioned on local blogs or Reddit threads.">>]

Shown == <<FixedAuditResult>>

Outstanding == timers + Len(inflight)

LastSettled == settled[Len(settled)]

SomeFieldEmpty == "" \in {contactName, phone, email, business, location}

BodyKeys(body) == {body[i][1] : i \in 1..Len(body)}

BodyValue(body, key) ==
    LET i == CHOOSE j \in 1..Len(body) : body[j][1] = key IN body[i][2]

\* C1: in the webhook variant a submit whose POST rejects still ends with
\* results equal to the fixed constant and loading = false.
C1_RejectedPostStillShowsResults ==
    (variant = "webhook" /\ event = "settle" /\ LastSettled.type = "error")
        => (results = Shown /\ ~loading)

\* C2: in the webhook variant a submit whose POST settles with a response,
\* of whatever status, ends with results equal to the fixed constant and
\* loading = false.
C2_AnyStatusShowsResults ==
    (variant = "webhook" /\ event = "settle" /\ LastSettled.type = "response")
        => (results = Shown /\ ~loading)

\* a first submit answered with an error status
C2_Witness ==
    /\ variant = "webhook"
    /\ event = "settle"
    /\ completed = 1
    /\ LastSettled.type = "response"
    /\ LastSettled.status = 500
    /\ results = Shown

\* C3: in the validating variant a submit with at least one empty field
\* raises the alert and changes nothing else: results, loading and the five
\* fields are unchanged and no timer or request is started.
C3_EmptyFieldAborts ==
    [][(variant = "validating" /\ SomeFieldEmpty /\ event' = "click")
        => /\ alertOpen'
           /\ loading' = FALSE
           /\ UNCHANGED <<results, loading, contactName, phone, email,
                          business, location, timers, inflight, posts,
                          submits>>]_vars

\* a first attempt with only the location missing has raised the alert
C3_Witness ==
    /\ variant = "validating"
    /\ event = "click"
    /\ alertOpen
    /\ location = ""
    /\ contactName # "" /\ phone # "" /\ email # "" /\ business # ""
    /\ results = null
    /\ ~loading
    /\ timers = 0

\* C4: an accepted submit sets loading in the submit step, loading returns
\* to false only at the timer or the settlement, and at that step results is
\* exactly the fixed constant.
C4_LoadingFalseOnlyWithResults ==
    [][/\ (event' = "click" /\ submits' = submits + 1) => loading'
       /\ (loading /\ ~loading')
            => (event' \in {"timeout", "settle"} /\ results' = Shown)]_vars

\* C5: once a first submit has completed and results are shown, a second
\* submit is accepted, sets loading, and completes with results equal to
\* the fixed constant and loading = false.
C5_SecondSubmitSameTerminalState ==
    /\ []((/\ results = Shown
           /\ ~loading
           /\ ~alertOpen
           /\ submits < MaxSubmits
           /\ (variant = "validating" => ~SomeFieldEmpty))
            => ENABLED (ClickRunAudit /\ loading'))
    /\ [][/\ (results = Shown /\ event' = "click" /\ submits' = submits + 1)
                => (loading' /\ results' = Shown)
          /\ (results = Shown /\ event' \in {"timeout", "settle"})
                => (results' = Shown /\ ~loading')]_vars

\* two submit cycles have completed
C5_Witness ==
    /\ submits = 2
    /\ completed = 2
    /\ results = Shown
    /\ ~loading

\* C6: results is always null or exactly the fixed constant; it is null
\* until a submit cycle has completed, and once it is the constant it stays
\* the constant.
C6_ResultsNullOrConstant ==
    /\ [](results \in {null, Shown})
    /\ [](results # null => completed >= 1)
    /\ [][results = Shown => results' = Shown]_vars

\* the results of an earlier submit survive a later failed one, with fields
\* that are no longer those submitted
C6_Witness ==
    /\ variant = "webhook"
    /\ completed >= 2
    /\ event = "settle"
    /\ LastSettled.type = "error"
    /\ results = Shown
    /\ contactName = ""

\* C7: every field holds the value most recently set for it; an update
\* changes only its own field and leaves results and loading alone; no other
\* step changes a field.
C7_FieldsHoldLastSetValue ==
    /\ [](/\ contactName = lastSet["contactName"]
          /\ phone = lastSet["phone"]
          /\ email = lastSet["email"]
          /\ business = lastSet["business"]
          /\ location = lastSet["location"])
    /\ [][/\ event' = "change"
                => /\ UNCHANGED <<results, loading>>
                   /\ Cardinality({i \in 1..5 : fields[i] # fields'[i]}) <= 1
          /\ event' # "change"
                => UNCHANGED <<contactName, phone, email, business,
                               location>>]_vars

\* fields typed before and during a submit are still there after it
C7_Witness ==
    /\ completed >= 1
    /\ results = Shown
    /\ phone = "a"
    /\ email = ""
    /\ contactName = "a"
    /\ event # "change"

\* C8: in the webhook variant each submit hands exactly one POST to the
\* network, in the submit step; its body carries the five field values of
\* that moment under the keys name, phone, email, business, location; no
\* other step issues or alters a request.
C8_OnePostWithSubmittedValues ==
    /\ [](variant = "webhook"
            => (posts = submits /\ posts = Len(inflight) + Len(settled)))
    /\ [][variant = "webhook" =>
            /\ (event' = "click") =>
                /\ posts' = posts + 1
                /\ results' = results
                /\ Len(inflight') = Len(inflight) + 1
                /\ SubSeq(inflight', 1, Len(inflight)) = inflight
                /\ LET body == inflight'[Len(inflight')].body IN
                    /\ Len(body) = 5
                    /\ BodyKeys(body) =
                        {"name", "phone", "email", "business", "location"}
                    /\ BodyValue(body, "name") = contactName
                    /\ BodyValue(body, "phone") = phone
                    /\ BodyValue(body, "email") = email
                    /\ BodyValue(body, "business") = business
                    /\ BodyValue(body, "location") = location
            /\ (event' # "click") =>
                /\ posts' = posts
                /\ \A i \in 1..Len(inflight') :
                     \E j \in 1..Len(inflight) : inflight'[i] = inflight[j]
         ]_vars

\* a request in flight still carries the submitted name after the field
\* has been edited
C8_Witness ==
    /\ variant = "webhook"
    /\ loading
    /\ Len(inflight) = 1
    /\ BodyValue(inflight[1].body, "name") = "a"
    /\ BodyValue(inflight[1].body, "business") = ""
    /\ contactName = ""
    /\ posts = submits

\* C9: at most one timer or request is outstanding, and loading is true
\* exactly when one is.
C9_AtMostOneOutstanding ==
    /\ Outstanding <= 1
    /\ loading <=> (Outstanding = 1)

\* a later submit in progress
C9_Witness ==
    /\ submits >= 2
    /\ loading
    /\ Outstanding = 1

\* C10: whenever loading is true it eventually becomes false again and the
\* submit control is re-enabled.
C10_LoadingEventuallyFalse ==
    loading ~> (~loading /\ ~ButtonDisabled)

\* a submit whose request was rejected has finished
C10_Witness ==
    /\ variant = "webhook"
    /\ event = "settle"
    /\ LastSettled.type = "error"
    /\ ~loading
    /\ Outstanding = 0
====
